---- MODULE Spec2Model ----
(***************************************************************************)
(* Model of src/python/unpack_firmware.py: the firmware unpacking pipeline *)
(* (output-directory cleanup, prerequisite check, binary carving, root     *)
(* discovery, depth-bounded recursive extraction, executable scan and      *)
(* manifest persistence).                                                  *)
(*                                                                         *)
(* A file name is a sequence of tokens (<<"fw", ".tar", ".gz">> is         *)
(* "fw.tar.gz"); a path is a sequence of names below the parent of the     *)
(* output directory.  The filesystem is a function from paths to nodes.    *)
(***************************************************************************)
EXTENDS Integers, Sequences, FiniteSets, TLC

\* ------------------------------------------------------------------ bounds
\* largest max_depth handed to recursive_extract
MaxDepthBound == 2
\* largest number of files seeded into one root directory
MaxFiles == 2

\* ------------------------------------------------------- program constants
\* the substrings of a path that make recursive_extract skip a file
Markers == {"_squashfs", "_jffs2", "_cpio", ".extracted"}

\* the candidate tools of the squashfs strategy, in the order they are tried
SquashfsTools == <<"unsquashfs", "sasquatch">>

\* substrings of a content description that qualify a file as executable
ExecIndicators == {"elf", "executable", "script", "shell"}

\* ------------------------------------------------------------ path algebra
\* tokens that begin with a dot: a trailing one is the name's suffix
DotTokens == {".gz", ".tar", ".cpio", ".img", ".bin", ".rar", ".extracted", ".txt"}

NoPath == <<>>

Parent(p) == SubSeq(p, 1, Len(p) - 1)

Name(p) == p[Len(p)]

IsPrefix(d, p) == Len(d) <= Len(p) /\ SubSeq(p, 1, Len(d)) = d

\* pathlib: PurePath.suffix is the last dot-part of the name, if the name
\* has one that is not the whole name
HasSuffix(n) == Len(n) > 1 /\ n[Len(n)] \in DotTokens

\* pathlib: PurePath.stem
Stem(n) == IF HasSuffix(n) THEN SubSeq(n, 1, Len(n) - 1) ELSE n

\* file_path.with_suffix('')
WithSuffixStripped(p) == Parent(p) \o <<Stem(Name(p))>>

\* extract_dir / f"{file_path.stem}_squashfs"
SubdirFor(p, dir, tag) == dir \o <<Stem(Name(p)) \o <<tag>>>>

\* a skip test that looks at the file's own name only
HasMarkerInName(p) == \E j \in DOMAIN Name(p) : Name(p)[j] \in Markers

\* any(x in str(file_path) for x in [...]): a marker anywhere in the path
HasMarker(p) == \E i \in DOMAIN p : \E j \in DOMAIN p[i] : p[i][j] \in Markers

\* -------------------------------------------------------------- filesystem
Dir == [k |-> "dir", c |-> "-", x |-> TRUE]

Symlink == [k |-> "symlink", c |-> "-", x |-> FALSE]

File(c, x) == [k |-> "file", c |-> c, x |-> x]

Exists(f, p) == p \in DOMAIN f

IsFile(f, p) == p \in DOMAIN f /\ f[p].k = "file"

IsDir(f, p) == p \in DOMAIN f /\ f[p].k = "dir"

\* the files below directory d (d itself excluded)
FilesUnder(f, d) == {p \in DOMAIN f : IsPrefix(d, p) /\ p # d /\ f[p].k = "file"}

\* the directories below directory d (d itself excluded)
DirsUnder(f, d) == {p \in DOMAIN f : IsPrefix(d, p) /\ p # d /\ f[p].k = "dir"}

\* the entries directly inside d
Children(f, d) == {p \in DOMAIN f : p # <<>> /\ Len(p) = Len(d) + 1 /\ Parent(p) = d}

\* all proper ancestors of p that lie strictly below base
DirsBetween(base, p) == {SubSeq(p, 1, i) : i \in (Len(base) + 1)..(Len(p) - 1)}

\* f with node n written at path p (created or overwritten)
Put(f, p, n) == [q \in DOMAIN f \cup {p} |-> IF q = p THEN n ELSE f[q]]

\* f with the members of an archive written below base: member files are
\* created or overwritten, missing intermediate directories are created
WriteTree(f, base, members) ==
    LET files == {base \o m.rel : m \in members}
        dirs  == UNION {DirsBetween(base, base \o m.rel) : m \in members}
        Mem(q) == CHOOSE m \in members : base \o m.rel = q
    IN [q \in DOMAIN f \cup files \cup dirs |->
          IF q \in files THEN File(Mem(q).c, Mem(q).x)
          ELSE IF q \in DOMAIN f THEN f[q]
          ELSE Dir]

\* ---------------------------------------------------------------- contents
\* The content of a file is named by an identifier; the operators below give
\* what the external collaborators report about it and produce from it.

\* the keywords found in the lower-cased output of `file -b` for the content
\* (for a gzip file the output quotes the original name: `gzip compressed
\* data, was "rootfs.cpio"`)
Desc(c) ==
    CASE c = "gz_tar"  -> {"gzip"}
      [] c = "gz_text" -> {"gzip"}
      [] c = "gz_bad"  -> {"gzip"}
      [] c = "gz_cpio" -> {"gzip", "cpio"}
      [] c = "tar_elf" -> {"tar archive"}
      [] c = "tar_bad" -> {"tar archive"}
      [] c = "sqfs"    -> {"squashfs"}
      [] c = "jffs"    -> {"jffs2"}
      [] c = "cpio_a"  -> {"cpio"}
      [] c = "elf"     -> {"elf", "executable"}
      [] c = "text"    -> {"text"}
      [] c = "firmware" -> {"data"}
      [] OTHER         -> {"empty"}

\* what gzip decompression of the content yields ("BAD": it raises)
GzPayload(c) ==
    CASE c = "gz_tar"  -> "tar_elf"
      [] c = "gz_text" -> "text"
      [] c = "gz_cpio" -> "cpio_a"
      [] OTHER         -> "BAD"

\* the members an archive or filesystem image holds
Members(c) ==
    CASE c = "tar_elf" -> {[rel |-> << <<"app">> >>, c |-> "elf", x |-> TRUE]}
      [] c = "sqfs"    -> {[rel |-> << <<"in", ".tar">> >>, c |-> "tar_elf", x |-> FALSE]}
      [] c = "jffs"    -> {[rel |-> << <<"cfg", ".gz">> >>, c |-> "gz_text", x |-> FALSE]}
      [] c = "cpio_a"  -> {[rel |-> << <<"init">> >>, c |-> "elf", x |-> TRUE]}
      [] OTHER         -> {}

\* whether tarfile can read the content
TarReadable(c) == c = "tar_elf"

\* ------------------------------------------------------- format classifier
\* a chain that tests the rules in the opposite order
ClassifyReversed(d) ==
    IF "cpio" \in d THEN "Cpio"
    ELSE IF "jffs2" \in d THEN "Jffs2"
    ELSE IF "squashfs" \in d THEN "Squashfs"
    ELSE IF d \cap {".tar", "tar archive"} # {} THEN "Tar"
    ELSE IF d \cap {".gz", "gzip"} # {} THEN "Gzip"
    ELSE "Unknown"

\* the if/elif chain of extract_nested_archives: the first rule whose
\* substring occurs in the description decides
Classify(d) ==
    IF d \cap {".gz", "gzip"} # {} THEN "Gzip"
    ELSE IF d \cap {".tar", "tar archive"} # {} THEN "Tar"
    ELSE IF "squashfs" \in d THEN "Squashfs"
    ELSE IF "jffs2" \in d THEN "Jffs2"
    ELSE IF "cpio" \in d THEN "Cpio"
    ELSE "Unknown"

\* ------------------------------------------------------ extraction dispatch
\* what the environment answers for one external tool: shutil.which finds
\* nothing, the tool runs and exits non-zero, the tool runs and exits 0
ToolOutcomes == {"absent", "fail", "ok"}

\* an environment in which `file -b` works and no extraction tool is present
EnvBase ==
    [inspect |-> TRUE, unsquashfs |-> "absent", sasquatch |-> "absent",
     jefferson |-> "absent", cpio |-> "absent"]

\* the environments that differ in what they answer to a file of content c
Envs(c) ==
    LET sig == Classify(Desc(c)) IN
    {[EnvBase EXCEPT !.inspect = FALSE]} \cup
    (CASE sig = "Squashfs" ->
            {[EnvBase EXCEPT !.unsquashfs = a, !.sasquatch = b] :
                a \in ToolOutcomes, b \in ToolOutcomes}
       [] sig = "Jffs2" -> {[EnvBase EXCEPT !.jefferson = a] : a \in ToolOutcomes}
       [] sig = "Cpio"  -> {[EnvBase EXCEPT !.cpio = a] : a \in {"fail", "ok"}}
       [] OTHER -> {EnvBase})

\* the result of a dispatch: the filesystem it leaves, the returned target
\* (NoPath for None), whether an exception left the function, the signature
\* that was dispatched, the tools that were run, in order, and the files the
\* extraction wrote
Outcome(f, result, raised, sig, tried, produced) ==
    [fs |-> f, result |-> result, raised |-> raised, sig |-> sig, tried |-> tried,
     produced |-> produced]

\* the paths of the member files of content c when written below base
Produced(base, c) == {base \o m.rel : m \in Members(c)}

\* the gzip branch: open(output_name, 'wb') creates or truncates the output
\* before the first byte is decompressed
ExtractGzip(f, p) ==
    LET out == WithSuffixStripped(p)
        x == IF Exists(f, out) THEN f[out].x ELSE FALSE
        truncated == Put(f, out, File("empty", x))
    IN  IF IsDir(f, out) THEN Outcome(f, NoPath, FALSE, "Gzip", <<>>, {})
        ELSE IF out = p THEN Outcome(truncated, out, FALSE, "Gzip", <<>>, {out})
        ELSE IF GzPayload(f[p].c) = "BAD"
             THEN Outcome(truncated, NoPath, FALSE, "Gzip", <<>>, {out})
        ELSE Outcome(Put(f, out, File(GzPayload(f[p].c), x)), out, FALSE, "Gzip",
                     <<>>, {out})

\* the tar branch: tar.extractall(path=extract_dir)
ExtractTar(f, p, dir) ==
    IF TarReadable(f[p].c)
    THEN Outcome(WriteTree(f, dir, Members(f[p].c)), dir, FALSE, "Tar", <<>>,
                 Produced(dir, f[p].c))
    ELSE Outcome(f, NoPath, FALSE, "Tar", <<>>, {})

\* subdir.mkdir(exist_ok=True) raises FileExistsError when the path exists
\* and is not a directory
MkdirRaises(f, subdir) == Exists(f, subdir) /\ ~IsDir(f, subdir)

\* the loop over the squashfs candidates from position i on: the tool that
\* won ("none" when the list is exhausted) and the tools that were run
\* a loop that stops after the first candidate it has run, whatever the result
TryToolsNoFallback(i, env, tried) ==
    LET avail == {j \in i..Len(SquashfsTools) : env[SquashfsTools[j]] # "absent"} IN
    IF avail = {} THEN [won |-> "none", tried |-> tried]
    ELSE LET t == SquashfsTools[CHOOSE j \in avail : \A k \in avail : j <= k] IN
         [won |-> IF env[t] = "ok" THEN t ELSE "none", tried |-> Append(tried, t)]

RECURSIVE TryTools(_, _, _)
TryTools(i, env, tried) ==
    IF i > Len(SquashfsTools) THEN [won |-> "none", tried |-> tried]
    ELSE LET t == SquashfsTools[i] IN
         IF env[t] = "absent" THEN TryTools(i + 1, env, tried)
         ELSE IF env[t] = "ok" THEN [won |-> t, tried |-> Append(tried, t)]
         ELSE TryTools(i + 1, env, Append(tried, t))

\* the squashfs branch
ExtractSquashfs(f, p, dir, env) ==
    LET subdir == SubdirFor(p, dir, "_squashfs")
        made == Put(f, subdir, Dir)
        t == TryTools(1, env, <<>>)
    IN  IF MkdirRaises(f, subdir) THEN Outcome(f, NoPath, TRUE, "Squashfs", <<>>, {})
        ELSE IF t.won # "none"
             THEN Outcome(WriteTree(made, subdir, Members(f[p].c)), subdir, FALSE,
                          "Squashfs", t.tried, Produced(subdir, f[p].c))
        ELSE Outcome(made, NoPath, FALSE, "Squashfs", t.tried, {})

\* the jffs2 branch
ExtractJffs2(f, p, dir, env) ==
    LET subdir == SubdirFor(p, dir, "_jffs2")
        made == Put(f, subdir, Dir)
    IN  IF MkdirRaises(f, subdir) THEN Outcome(f, NoPath, TRUE, "Jffs2", <<>>, {})
        ELSE IF env.jefferson = "ok"
             THEN Outcome(WriteTree(made, subdir, Members(f[p].c)), subdir, FALSE,
                          "Jffs2", <<"jefferson">>, Produced(subdir, f[p].c))
        ELSE IF env.jefferson = "fail"
             THEN Outcome(made, NoPath, FALSE, "Jffs2", <<"jefferson">>, {})
        ELSE Outcome(made, NoPath, FALSE, "Jffs2", <<>>, {})

\* the cpio branch
ExtractCpio(f, p, dir, env) ==
    LET subdir == SubdirFor(p, dir, "_cpio")
        made == Put(f, subdir, Dir)
    IN  IF MkdirRaises(f, subdir) THEN Outcome(f, NoPath, TRUE, "Cpio", <<>>, {})
        ELSE IF env.cpio = "ok"
             THEN Outcome(WriteTree(made, subdir, Members(f[p].c)), subdir, FALSE,
                          "Cpio", <<"cpio">>, Produced(subdir, f[p].c))
        ELSE Outcome(made, NoPath, FALSE, "Cpio", <<"cpio">>, {})

\* a dispatch that classifies by the content even when `file -b` failed
extract_ignoring_inspection(f, p, dir, env) ==
    LET sig == Classify(Desc(f[p].c)) IN
    CASE sig = "Gzip"     -> ExtractGzip(f, p)
      [] sig = "Tar"      -> ExtractTar(f, p, dir)
      [] sig = "Squashfs" -> ExtractSquashfs(f, p, dir, env)
      [] sig = "Jffs2"    -> ExtractJffs2(f, p, dir, env)
      [] sig = "Cpio"     -> ExtractCpio(f, p, dir, env)
      [] OTHER            -> Outcome(f, NoPath, FALSE, "Unknown", <<>>, {})

\* extract_nested_archives(file_path, extract_dir) in environment env
extract_nested_archives(f, p, dir, env) ==
    LET sig == IF env.inspect THEN Classify(Desc(f[p].c)) ELSE "Unknown" IN
    CASE sig = "Gzip"     -> ExtractGzip(f, p)
      [] sig = "Tar"      -> ExtractTar(f, p, dir)
      [] sig = "Squashfs" -> ExtractSquashfs(f, p, dir, env)
      [] sig = "Jffs2"    -> ExtractJffs2(f, p, dir, env)
      [] sig = "Cpio"     -> ExtractCpio(f, p, dir, env)
      [] OTHER            -> Outcome(f, NoPath, FALSE, "Unknown", <<>>, {})

\* -------------------------------------------------------------------- inputs
\* the resolved output directory
Out == << <<"out">> >>

\* list_file = out / "executables.txt"
ListFile == Out \o << <<"executables", ".txt">> >>

\* recursive_extract's default max_depth
DefaultMaxDepth == 5

\* the filesystem that holds only the parent of the output directory
EmptyFs == [q \in {<<>>} |-> Dir]

\* the firmware image when it lies beside the output directory
FirmwareOutside == << <<"fw", ".bin">> >>

\* entries the output directory may hold before the run; fw.bin is the
\* firmware image when it lies directly inside the output directory
PreItems ==
    { [n |-> <<"fw", ".bin">>, node |-> File("firmware", FALSE)],
      [n |-> <<"lnk">>, node |-> Symlink],
      [n |-> <<"old", ".bin">>, node |-> File("text", FALSE)],
      [n |-> <<"a", ".tar">>, node |-> File("tar_elf", FALSE)] }

\* largest number of entries in the output directory before the run
MaxPre == 1

\* f with the firmware image beside the output directory, unless the image
\* lies inside it
WithFirmware(f) ==
    IF \E p \in DOMAIN f : p # <<>> /\ Name(p) = Name(FirmwareOutside) THEN f
    ELSE Put(f, FirmwareOutside, File("firmware", FALSE))

\* the filesystems the run may start in: the firmware image and no output
\* directory, or an output directory holding some of PreItems
InitialTrees ==
    {WithFirmware(EmptyFs)} \cup
    { WithFirmware([q \in {<<>>, Out} \cup {Out \o <<i.n>> : i \in S} |->
          IF Len(q) < 2 THEN Dir ELSE (CHOOSE i \in S : i.n = Name(q)).node]) :
      S \in {T \in SUBSET PreItems : Cardinality(T) <= MaxPre} }

\* fw = Path(fw_path).resolve(): the firmware image of a run started in f0
Firmware(f0) ==
    CHOOSE p \in DOMAIN f0 : p # <<>> /\ Name(p) = Name(FirmwareOutside)

\* the names the carving tool may give its output directory
RootNames == { <<"_fw", ".bin", ".extracted">>, <<"fw", ".bin", ".extracted">>, <<"_fw">> }

\* the files the carving tool may leave in its output directory
SeedFiles ==
    { [rel |-> << <<"fw", ".tar", ".gz">> >>, c |-> "gz_tar", x |-> FALSE],
      [rel |-> << <<"fw", ".tar">> >>, c |-> "text", x |-> FALSE],
      [rel |-> << <<"a", ".tar">> >>, c |-> "tar_elf", x |-> FALSE],
      [rel |-> << <<"sub">>, <<"b", ".tar">> >>, c |-> "tar_bad", x |-> FALSE],
      [rel |-> << <<"r", ".img">> >>, c |-> "sqfs", x |-> FALSE],
      [rel |-> << <<"r", "_squashfs">> >>, c |-> "text", x |-> FALSE],
      [rel |-> << <<"j", ".img">> >>, c |-> "jffs", x |-> FALSE],
      [rel |-> << <<"c", ".img">> >>, c |-> "cpio_a", x |-> FALSE],
      [rel |-> << <<"payload">> >>, c |-> "gz_text", x |-> FALSE],
      [rel |-> << <<"bad", ".gz">> >>, c |-> "gz_bad", x |-> FALSE],
      [rel |-> << <<"rootfs", ".cpio", ".gz">> >>, c |-> "gz_cpio", x |-> FALSE],
      [rel |-> << <<"run", ".txt">> >>, c |-> "text", x |-> TRUE],
      [rel |-> << <<"bb">> >>, c |-> "elf", x |-> TRUE] }

\* a carving run that produces nothing
NoSeed == [root |-> NoPath, files |-> {}]

\* what one carving run may produce: nothing, or one directory with files
Seeds ==
    {NoSeed} \cup
    { [root |-> Out \o <<n>>, files |-> S] :
        n \in RootNames,
        S \in {T \in SUBSET SeedFiles : Cardinality(T) >= 1 /\ Cardinality(T) <= MaxFiles} }

\* the sequences that enumerate a finite set once each (glob order is
\* whatever the directory listing gives)
Orders(S) ==
    {s \in [1..Cardinality(S) -> S] : \A i, j \in 1..Cardinality(S) : s[i] = s[j] => i = j}

\* --------------------------------------------------------------------- state
VARIABLES
    pc,          \* position of unpack_firmware
    fs,          \* the filesystem
    fs0,         \* the filesystem when the program was started
    binwalk,     \* whether shutil.which finds the carving tool
    maxDepth,    \* the max_depth of the recursive_extract calls
    roots,       \* extracted_dirs
    rootIdx,     \* position of the Step 3 loop in extracted_dirs
    stack,       \* the active recursive_extract calls, innermost last
    visits,      \* the classifications of the current root's run: the file,
                 \* the depth, whether the inspection call worked
    revisited,   \* files classified more than once in the current root's run
    outcomes,    \* the dispatches that returned a target
    last,        \* the latest dispatch: its file, the environment it met, the
                 \* filesystem before, its result
    lastReturn,  \* the recursive_extract call that returned last
    executables, \* the list collected by Step 4
    blind,       \* the files for which the scan's inspection call failed
    manifest,    \* where the list was persisted, and what was written
    returned     \* what unpack_firmware handed to its caller

vars == <<pc, fs, fs0, binwalk, maxDepth, roots, rootIdx, stack, visits, revisited,
          outcomes, last, lastReturn, executables, blind, manifest, returned>>

NoReturn ==
    [dir |-> NoPath, depth |-> 0, value |-> "-", start |-> {}, seen |-> {}, got |-> {}]

NoDispatch ==
    [p |-> NoPath, depth |-> 0, env |-> EnvBase, pre |-> EmptyFs,
     r |-> Outcome(EmptyFs, NoPath, FALSE, "-", <<>>, {})]

Init ==
    /\ pc = "start"
    /\ fs \in InitialTrees
    /\ fs0 = fs
    /\ binwalk \in BOOLEAN
    /\ maxDepth \in 0..MaxDepthBound
    /\ roots = <<>>
    /\ rootIdx = 1
    /\ stack = <<>>
    /\ visits = {}
    /\ revisited = {}
    /\ outcomes = {}
    /\ last = NoDispatch
    /\ lastReturn = NoReturn
    /\ executables = <<>>
    /\ blind = {}
    /\ manifest = [where |-> "unsaved", lines |-> <<>>, attempts |-> <<>>]
    /\ returned = [kind |-> "none", val |-> <<>>]

\* ---------------------------------------------------------- unpack_firmware
\* cleanup_output_dir: direct children that are symlinks or are named *.rar
\* or *.bin are removed (a directory with its whole tree)
Conflicting(f, p) ==
    \/ f[p].k = "symlink"
    \/ Name(p)[Len(Name(p))] \in {".rar", ".bin"}

cleanup_output_dir(f, out) ==
    [q \in {r \in DOMAIN f :
              ~\E p \in Children(f, out) : Conflicting(f, p) /\ IsPrefix(p, r)} |-> f[q]]

\* out.mkdir(parents=True, exist_ok=True)
MkdirOut(f) == IF Exists(f, Out) THEN f ELSE Put(f, Out, Dir)

\* lines 155-162: create the output directory, clean it, then check for the
\* carving tool and exit with status 1 when it is absent
Prepare ==
    /\ pc = "start"
    /\ fs' = cleanup_output_dir(MkdirOut(fs), Out)
    /\ pc' = IF binwalk THEN "carve" ELSE "exit1"
    /\ UNCHANGED <<fs0, binwalk, maxDepth, roots, rootIdx, stack, visits, revisited,
                   outcomes, last, lastReturn, executables, blind, manifest, returned>>

\* lines 164-174: the carving tool runs on the firmware path with the
\* output directory as its working directory; its exit status is ignored.
\* It produces nothing when the firmware image is not there.
Carve ==
    /\ pc = "carve"
    /\ \E seed \in (IF IsFile(fs, Firmware(fs0)) THEN Seeds ELSE {NoSeed}) :
         fs' = IF seed.root = NoPath THEN fs
               ELSE WriteTree(Put(fs, seed.root, Dir), seed.root, seed.files)
    /\ pc' = "locate"
    /\ UNCHANGED <<fs0, binwalk, maxDepth, roots, rootIdx, stack, visits, revisited,
                   outcomes, last, lastReturn, executables, blind, manifest, returned>>

\* out.glob("_*")
GlobUnderscore(f) == {p \in Children(f, Out) : Name(p)[1] \in {"_fw"}}

\* out.glob("*.extracted")
GlobExtracted(f) == {p \in Children(f, Out) : Name(p)[Len(Name(p))] = ".extracted"}

\* lines 177-183: the two glob results are concatenated; the output
\* directory itself is the only root when both are empty
Locate ==
    /\ pc = "locate"
    /\ \E a \in Orders(GlobUnderscore(fs)), b \in Orders(GlobExtracted(fs)) :
         roots' = IF a \o b = <<>> THEN <<Out>> ELSE a \o b
    /\ rootIdx' = 1
    /\ pc' = "extract"
    /\ UNCHANGED <<fs, fs0, binwalk, maxDepth, stack, visits, revisited, outcomes,
                   last, lastReturn, executables, blind, manifest, returned>>

\* -------------------------------------------------------- recursion controller
\* (NewFrameLate is NewFrame with the depth test of line 111 off by one.)
\* A call of recursive_extract(directory, max_depth, current_depth).  Lines
\* 111-112 return at once when the depth bound is reached; rglob yields
\* nothing when the argument is not a directory.  rglob lists a directory
\* when it reaches it: `todo` holds the listed files not yet yielded,
\* `listed` the directories listed so far, `must` the directories that exist
\* when the call starts (each of them is listed before the loop ends; a
\* directory created later is listed or not, depending on when its parent
\* is scanned), `start` the files in the subtree when the call starts, `got`
\* the targets that dispatches handed back to this call.
NewFrameLate(f, dir, depth) ==
    LET active == depth <= maxDepth /\ IsDir(f, dir) IN
    [dir    |-> dir,
     depth  |-> depth,
     active |-> active,
     todo   |-> IF active THEN {p \in Children(f, dir) : IsFile(f, p)} ELSE {},
     listed |-> {dir},
     must   |-> IF active THEN DirsUnder(f, dir) ELSE {},
     start  |-> IF IsDir(f, dir) THEN FilesUnder(f, dir) ELSE {},
     got    |-> {},
     any    |-> FALSE]

NewFrame(f, dir, depth) ==
    LET active == depth < maxDepth /\ IsDir(f, dir) IN
    [dir    |-> dir,
     depth  |-> depth,
     active |-> active,
     todo   |-> IF active THEN {p \in Children(f, dir) : IsFile(f, p)} ELSE {},
     listed |-> {dir},
     must   |-> IF active THEN DirsUnder(f, dir) ELSE {},
     start  |-> IF IsDir(f, dir) THEN FilesUnder(f, dir) ELSE {},
     got    |-> {},
     any    |-> FALSE]

Top == stack[Len(stack)]

Pop == SubSeq(stack, 1, Len(stack) - 1)

ReplaceTop(fr) == [stack EXCEPT ![Len(stack)] = fr]

\* lines 187-190: the Step 3 loop calls recursive_extract on the next root
StartRoot ==
    /\ pc = "extract"
    /\ stack = <<>>
    /\ rootIdx <= Len(roots)
    /\ IF Exists(fs, roots[rootIdx])
       THEN /\ stack' = <<NewFrame(fs, roots[rootIdx], 0)>>
            /\ rootIdx' = rootIdx
       ELSE /\ stack' = stack
            /\ rootIdx' = rootIdx + 1
    /\ visits' = {}
    /\ revisited' = {}
    /\ outcomes' = {}
    /\ UNCHANGED <<pc, fs, fs0, binwalk, maxDepth, roots, last, lastReturn, executables, blind,
                   manifest, returned>>

\* lines 117-121: the next path is not a file, or its path holds a marker
SkipMarked ==
    /\ pc = "extract"
    /\ stack # <<>>
    /\ \E p \in Top.todo :
         /\ ~IsFile(fs, p) \/ HasMarker(p)
         /\ stack' = ReplaceTop([Top EXCEPT !.todo = @ \ {p}])
    /\ UNCHANGED <<pc, fs, fs0, binwalk, maxDepth, roots, rootIdx, visits, revisited,
                   outcomes, last, lastReturn, executables, blind, manifest, returned>>

\* lines 123-127: the next file is classified and dispatched; when a target
\* comes back the call recurses into it one level deeper.  An exception that
\* leaves extract_nested_archives is caught nowhere and ends the program.
Dispatch ==
    /\ pc = "extract"
    /\ stack # <<>>
    /\ \E p \in Top.todo :
         /\ IsFile(fs, p)
         /\ ~HasMarker(p)
         /\ \E env \in Envs(fs[p].c) :
              LET r == extract_nested_archives(fs, p, Parent(p), env)
                  fr == [Top EXCEPT !.todo = @ \ {p},
                                    !.got = IF r.result = NoPath THEN @
                                            ELSE @ \cup {r.result},
                                    !.any = @ \/ (r.result # NoPath)]
              IN  /\ fs' = r.fs
                  /\ last' = [p |-> p, depth |-> Top.depth, env |-> env, pre |-> fs,
                               r |-> r]
                  /\ visits' = visits \cup
                               {[p |-> p, depth |-> Top.depth, ok |-> env.inspect]}
                  /\ revisited' = revisited \cup
                                  (IF \E v \in visits : v.p = p THEN {p} ELSE {})
                  /\ IF r.raised
                     THEN /\ pc' = "crashed"
                          /\ stack' = <<>>
                          /\ outcomes' = outcomes
                     ELSE /\ pc' = pc
                          /\ stack' = IF r.result = NoPath THEN ReplaceTop(fr)
                                      ELSE Append(ReplaceTop(fr),
                                                  NewFrame(r.fs, r.result, Top.depth + 1))
                          /\ outcomes' = IF r.result = NoPath THEN outcomes
                                         ELSE outcomes \cup
                                              {[src |-> p, sig |-> r.sig,
                                                target |-> r.result,
                                                produced |-> r.produced,
                                                depth |-> Top.depth]}
    /\ UNCHANGED <<fs0, binwalk, maxDepth, roots, rootIdx, lastReturn, executables, blind,
                   manifest, returned>>

\* line 117: rglob reaches the next directory and lists it
ListDir ==
    /\ pc = "extract"
    /\ stack # <<>>
    /\ Top.active
    /\ Top.todo = {}
    /\ \E d \in DirsUnder(fs, Top.dir) \ Top.listed :
         /\ Parent(d) \in Top.listed
         /\ stack' = ReplaceTop([Top EXCEPT !.todo = {p \in Children(fs, d) : IsFile(fs, p)},
                                            !.listed = @ \cup {d}])
    /\ UNCHANGED <<pc, fs, fs0, binwalk, maxDepth, roots, rootIdx, visits, revisited,
                   outcomes, last, lastReturn, executables, blind, manifest, returned>>

\* lines 111-112 and 129: the call returns None at the depth bound and
\* extracted_anything otherwise; the caller ignores the value
Return ==
    /\ pc = "extract"
    /\ stack # <<>>
    /\ Top.todo = {}
    /\ Top.must \subseteq Top.listed
    /\ lastReturn' = [dir |-> Top.dir, depth |-> Top.depth, start |-> Top.start,
                      seen |-> {v.p : v \in visits}, got |-> Top.got,
                      value |-> IF Top.depth >= maxDepth THEN "None"
                                ELSE IF Top.any THEN "True" ELSE "False"]
    /\ stack' = Pop
    /\ rootIdx' = IF Len(stack) = 1 THEN rootIdx + 1 ELSE rootIdx
    /\ UNCHANGED <<pc, fs, fs0, binwalk, maxDepth, roots, visits, revisited, outcomes,
                   last, executables, blind, manifest, returned>>

\* ---------------------------------------------------------- executable scanner
\* a scan that takes every execute-permitted file whose inspection works,
\* whatever its description
QualifiesAnyContent(f, root, failed) ==
    {p \in FilesUnder(f, root) : f[p].x /\ p \notin failed}

\* lines 198-208: the files below root that pass os.access(f, os.X_OK) and
\* whose description holds an indicator; `failed` are the files for which
\* the inspection call fails
Qualifies(f, root, failed) ==
    {p \in FilesUnder(f, root) :
        f[p].x /\ p \notin failed /\ Desc(f[p].c) \cap ExecIndicators # {}}

\* the lists Step 4 can build from root i on: roots in order, the files of
\* one root in listing order
RECURSIVE ScanFrom(_, _, _)
ScanFrom(f, i, failed) ==
    IF i > Len(roots) THEN {<<>>}
    ELSE IF ~Exists(f, roots[i]) THEN ScanFrom(f, i + 1, failed)
    ELSE {a \o b : a \in Orders(Qualifies(f, roots[i], failed)),
                   b \in ScanFrom(f, i + 1, failed)}

\* lines 192-212
Scan ==
    /\ pc = "extract"
    /\ stack = <<>>
    /\ rootIdx > Len(roots)
    /\ blind' \in SUBSET {p \in FilesUnder(fs, Out) : fs[p].x}
    /\ executables' \in ScanFrom(fs, 1, blind')
    /\ pc' = "persist"
    /\ UNCHANGED <<fs, fs0, binwalk, maxDepth, roots, rootIdx, stack, visits, revisited,
                   outcomes, last, lastReturn, manifest, returned>>

\* lines 214-233: the list is written to out/executables.txt; when that
\* raises it is written to ./executables.txt; when that raises too the
\* failure is printed.  The function returns list_file.
Persist ==
    /\ pc = "persist"
    /\ \E primary \in BOOLEAN, fallback \in BOOLEAN :
         IF primary
         THEN /\ fs' = Put(fs, ListFile, File("manifest", FALSE))
              /\ manifest' = [where |-> "primary", lines |-> executables,
                              attempts |-> <<"primary">>]
         ELSE /\ fs' = fs
              /\ manifest' = [where |-> IF fallback THEN "cwd" ELSE "failed",
                              lines |-> IF fallback THEN executables ELSE <<>>,
                              attempts |-> <<"primary", "cwd">>]
    /\ returned' = [kind |-> "path", val |-> ListFile]
    /\ pc' = "done"
    /\ UNCHANGED <<fs0, binwalk, maxDepth, roots, rootIdx, stack, visits, revisited,
                   outcomes, last, lastReturn, executables, blind>>

Next ==
    \/ Prepare
    \/ Carve
    \/ Locate
    \/ StartRoot
    \/ SkipMarked
    \/ Dispatch
    \/ ListDir
    \/ Return
    \/ Scan
    \/ Persist

Spec == Init /\ [][Next]_vars

\* the run is sequential and every step that is enabled is taken
FairSpec == Spec /\ WF_vars(Next)

\* The whole pipeline at the default depth, on trees that hold one
\* gzip-compressed tar archive with one ELF binary and nothing else that is
\* executable: the archive lies in the carving tool's directory, in a
\* subdirectory of it, or in the output directory itself.
E2EArchive == [c |-> "gz_tar", x |-> FALSE]

E2ETrees ==
    { WithFirmware([q \in {<<>>, Out} |-> Dir]),
      WithFirmware([q \in {<<>>, Out, Out \o << <<"fw", ".tar", ".gz">> >>} |->
          IF Len(q) < 2 THEN Dir ELSE File(E2EArchive.c, E2EArchive.x)]) }

E2ESeeds ==
    {NoSeed} \cup
    { [root |-> Out \o <<n>>,
       files |-> {[rel |-> rel, c |-> E2EArchive.c, x |-> E2EArchive.x]}] :
        n \in RootNames,
        rel \in { << <<"fw", ".tar", ".gz">> >>, << <<"sub">>, <<"fw", ".tar", ".gz">> >> } }

InitE2E ==
    /\ pc = "start"
    /\ fs \in E2ETrees
    /\ fs0 = fs
    /\ binwalk = TRUE
    /\ maxDepth = DefaultMaxDepth
    /\ roots = <<>>
    /\ rootIdx = 1
    /\ stack = <<>>
    /\ visits = {}
    /\ revisited = {}
    /\ outcomes = {}
    /\ last = NoDispatch
    /\ lastReturn = NoReturn
    /\ executables = <<>>
    /\ blind = {}
    /\ manifest = [where |-> "unsaved", lines |-> <<>>, attempts |-> <<>>]
    /\ returned = [kind |-> "none", val |-> <<>>]

CarveE2E ==
    /\ pc = "carve"
    /\ \E seed \in (IF IsFile(fs, Firmware(fs0)) THEN E2ESeeds ELSE {NoSeed}) :
         fs' = IF seed.root = NoPath THEN fs
               ELSE WriteTree(Put(fs, seed.root, Dir), seed.root, seed.files)
    /\ pc' = "locate"
    /\ UNCHANGED <<fs0, binwalk, maxDepth, roots, rootIdx, stack, visits, revisited,
                   outcomes, last, lastReturn, executables, blind, manifest, returned>>

NextE2E ==
    \/ Prepare
    \/ CarveE2E
    \/ Locate
    \/ StartRoot
    \/ SkipMarked
    \/ Dispatch
    \/ ListDir
    \/ Return
    \/ Scan
    \/ Persist

SpecE2E == InitE2E /\ [][NextE2E]_vars

TypeOK ==
    /\ pc \in {"start", "carve", "locate", "extract", "persist", "done", "exit1", "crashed"}
    /\ rootIdx \in 1..(Len(roots) + 1)

\* ============================================================== properties
\* the extraction markers, as the specification lists them
SpecMarkers == {"_squashfs", "_jffs2", "_cpio", ".extracted"}

\* some component of the path holds an extraction marker
PathCarriesMarker(p) ==
    \E i \in DOMAIN p : \E j \in DOMAIN p[i] : p[i][j] \in SpecMarkers

\* the file's own name holds an extraction marker
NameCarriesMarker(p) == \E j \in DOMAIN p[Len(p)] : p[Len(p)][j] \in SpecMarkers

\* the file's content is of a format the classifier recognises
Recognizable(f, p) ==
    p \in DOMAIN f /\ f[p].k = "file" /\ Classify(Desc(f[p].c)) # "Unknown"

\* C1: within the run of recursive_extract on one root no file is classified
\* and dispatched a second time, in the same call or in a nested one.
C1_Claim == revisited = {}

\* C2: no file whose path carries an extraction marker is ever classified or
\* dispatched by the recursion controller, at any depth.
C2_NoMarkedVisit ==
    /\ \A v \in visits : ~PathCarriesMarker(v.p)
    /\ ~PathCarriesMarker(last.p)

\* C2 witness: the run of a root has ended after a namespaced subdirectory
\* was filled by an extraction and a nested call, within the depth bound,
\* enumerated its files.
C2_Witness ==
    /\ pc = "persist"
    /\ \E o \in outcomes :
         /\ o.sig \in {"Squashfs", "Jffs2", "Cpio"}
         /\ o.depth + 1 < maxDepth
         /\ \E q \in o.produced : Recognizable(fs, q)

\* C3: every classification happens at a depth below max_depth, and a call
\* entered at or beyond max_depth enumerates and classifies nothing.
C3_DepthBounded ==
    /\ \A v \in visits : v.depth < maxDepth
    /\ last.p # NoPath => last.depth < maxDepth
    /\ \A i \in DOMAIN stack : stack[i].depth >= maxDepth => stack[i].todo = {}

\* C3 witness: a call returned at the depth bound although its target held a
\* recognisable file outside every marker.
C3_Witness ==
    /\ lastReturn.value = "None"
    /\ \E p \in lastReturn.start : ~PathCarriesMarker(p) /\ Recognizable(fs, p)

\* C4: once the extraction step is entered, recursive_extract returns for
\* every root and the pipeline reaches the step after the executable scan.
C4_Claim == (pc = "extract") ~> (pc = "persist")

\* C5: a top-level call with max_depth >= 1 has, when it returns, classified
\* every file that was in its subtree when it started and whose own name
\* holds no marker.
C5_Claim ==
    (lastReturn.value # "-" /\ lastReturn.depth = 0 /\ maxDepth >= 1)
        => \A p \in lastReturn.start : ~NameCarriesMarker(p) => p \in lastReturn.seen

\* C6: when the run of a root has ended, every recognisable file produced by
\* a dispatch at a depth d with d + 1 < max_depth has been classified.
C6_Claim ==
    pc = "persist" =>
        \A o \in outcomes : o.depth + 1 < maxDepth =>
            \A q \in o.produced : Recognizable(fs, q) => \E v \in visits : v.p = q

\* C7: a successful gzip dispatch creates exactly one new file, the source
\* path with its suffix stripped, holding the decompressed payload, returns
\* it, and leaves every file that existed before as it was.
C7_Claim ==
    (last.r.sig = "Gzip" /\ last.r.result # NoPath) =>
        /\ last.r.result \notin DOMAIN last.pre
        /\ last.r.result # last.p
        /\ DOMAIN last.r.fs = DOMAIN last.pre \cup {last.r.result}
        /\ \A q \in DOMAIN last.pre : last.r.fs[q] = last.pre[q]
        /\ last.r.fs[last.r.result].c = GzPayload(last.pre[last.p].c)

\* C8: no dispatch raises, and no per-file error ends the run.
C8_Claim == ~last.r.raised /\ pc # "crashed"

\* C9: when the program exits with status 1 because the carving tool is
\* absent, the filesystem is as it was when the program started.
C9_Claim == pc = "exit1" => fs = fs0

\* C10: when unpack_firmware has returned, its caller holds the sequence of
\* executables, whichever persistence outcome occurred; the fallback was
\* attempted exactly when the primary write failed.
C10_Claim ==
    pc = "done" =>
        /\ returned.kind = "sequence"
        /\ returned.val = executables
        /\ (manifest.attempts = <<"primary", "cwd">>) <=> (manifest.where # "primary")

\* the indicators of an executable artifact, as the specification lists them
SpecIndicators == {"elf", "executable", "script", "shell"}

\* the path is an entry of the scanner's output
InOutput(p) == \E i \in DOMAIN executables : executables[i] = p

\* the files below the scanned roots
Scanned == UNION {FilesUnder(fs, roots[i]) : i \in DOMAIN roots}

\* C11: when the scan has run, a file below the scanned roots is in its
\* output if and only if it is execute-permitted, its inspection worked and
\* its description holds an indicator; nothing else is in the output.
C11_ScanExact ==
    pc = "persist" =>
        /\ \A p \in Scanned :
             InOutput(p) <=> (/\ fs[p].x
                              /\ p \notin blind
                              /\ Desc(fs[p].c) \cap SpecIndicators # {})
        /\ \A i \in DOMAIN executables : executables[i] \in Scanned

\* C11 witness: the scan listed a file that lies below a marker while an
\* execute-permitted file was left out.
C11_Witness ==
    /\ pc = "persist"
    /\ \E q \in Scanned : InOutput(q) /\ PathCarriesMarker(q)
    /\ \E p \in Scanned : fs[p].x /\ ~InOutput(p)

\* the squashfs candidates in the order of preference the specification gives
SpecSquashfsOrder == <<"unsquashfs", "sasquatch">>

\* the namespaced subdirectory of the latest dispatch
LastSubdir(tag) ==
    Parent(last.p) \o <<(IF Len(last.p[Len(last.p)]) > 1
                            /\ last.p[Len(last.p)][Len(last.p[Len(last.p)])] \in DotTokens
                         THEN SubSeq(last.p[Len(last.p)], 1, Len(last.p[Len(last.p)]) - 1)
                         ELSE last.p[Len(last.p)]) \o <<tag>>>>

\* C12: a squashfs dispatch whose subdirectory could be created runs
\* unsquashfs when it is available, runs sasquatch exactly when it is
\* available and unsquashfs was absent or failed, in that order, and returns
\* the subdirectory exactly when a tool it ran exited with success.
C12_ToolOrder ==
    (last.r.sig = "Squashfs" /\ ~last.r.raised) =>
        LET first == last.env[SpecSquashfsOrder[1]]
            second == last.env[SpecSquashfsOrder[2]]
            ranFirst == first # "absent"
            ranSecond == first # "ok" /\ second # "absent"
        IN  /\ last.r.tried =
                 (IF ranFirst THEN <<SpecSquashfsOrder[1]>> ELSE <<>>) \o
                 (IF ranSecond THEN <<SpecSquashfsOrder[2]>> ELSE <<>>)
            /\ (last.r.result # NoPath) <=> (first = "ok" \/ (ranSecond /\ second = "ok"))
            /\ last.r.result # NoPath => last.r.result = LastSubdir("_squashfs")
            /\ LastSubdir("_squashfs") \in DOMAIN last.r.fs
            /\ last.r.fs[LastSubdir("_squashfs")].k = "dir"

\* C12 witness: the first candidate was absent or failed and the second one
\* extracted the image.
C12_Witness ==
    /\ last.r.sig = "Squashfs"
    /\ last.env.unsquashfs \in {"absent", "fail"}
    /\ last.env.sasquatch = "ok"
    /\ last.r.result # NoPath

\* C13: a call of recursive_extract that has returned gave back true when a
\* dispatch of the call handed it a produced target and false otherwise,
\* also when it was entered at or beyond max_depth.
C13_Claim ==
    lastReturn.value # "-" =>
        lastReturn.value = (IF lastReturn.got # {} THEN "True" ELSE "False")

\* the classifier's rule table, in the order the specification gives
SpecRules ==
    << [sig |-> "Gzip",     subs |-> {".gz", "gzip"}],
       [sig |-> "Tar",      subs |-> {".tar", "tar archive"}],
       [sig |-> "Squashfs", subs |-> {"squashfs"}],
       [sig |-> "Jffs2",    subs |-> {"jffs2"}],
       [sig |-> "Cpio",     subs |-> {"cpio"}] >>

\* the rules of which a substring occurs in description d
SpecMatches(d) == {i \in DOMAIN SpecRules : SpecRules[i].subs \cap d # {}}

\* the signature of the earliest matching rule
SpecSignature(d) ==
    IF SpecMatches(d) = {} THEN "Unknown"
    ELSE SpecRules[CHOOSE i \in SpecMatches(d) : \A j \in SpecMatches(d) : i <= j].sig

\* the description of the file of the latest dispatch
LastDesc == Desc(last.pre[last.p].c)

\* C14: a dispatch of a file that classifies as Unknown (the inspection call
\* failed, or no rule matches the description) returns no target, raises
\* nothing and leaves the filesystem exactly as it was.
C14_UnknownNoOp ==
    (last.p # NoPath /\ (~last.env.inspect \/ SpecMatches(LastDesc) = {})) =>
        /\ last.r.result = NoPath
        /\ ~last.r.raised
        /\ last.r.fs = last.pre

\* C14 witness: the inspection call failed on a file whose content a rule
\* would have matched.
C14_Witness ==
    /\ last.p # NoPath
    /\ ~last.env.inspect
    /\ SpecMatches(LastDesc) # {}
    /\ last.r.result = NoPath

\* C16: when the inspection call works, the strategy a dispatch runs is the
\* one of the earliest rule of the table of which a substring occurs in the
\* description (none when no rule matches).
C16_FirstMatch ==
    (last.p # NoPath /\ last.env.inspect) => last.r.sig = SpecSignature(LastDesc)

\* C16 witness: a description that matches the gzip rule and a later rule
\* was dispatched as Gzip.
C16_Witness ==
    /\ last.p # NoPath
    /\ last.env.inspect
    /\ Cardinality(SpecMatches(LastDesc)) >= 2
    /\ last.r.sig = "Gzip"

\* the gzip-compressed tar archives below the roots
Archives == {p \in Scanned : fs[p].c = "gz_tar"}

\* C15: when the pipeline has ended without any tool or write failure on a
\* tree whose roots hold a gzip-compressed tar archive with one ELF binary,
\* the manifest has exactly one line, the path of the ELF file in the
\* directory the tar was extracted into.
C15_Claim ==
    (/\ pc = "done"
     /\ Archives # {}
     /\ \A v \in visits : v.ok
     /\ blind = {}
     /\ manifest.where # "failed")
        => /\ Len(manifest.lines) = 1
           /\ \E a \in Archives : manifest.lines[1] = Parent(a) \o << <<"app">> >>
           /\ manifest.lines[1] \in DOMAIN fs
           /\ fs[manifest.lines[1]].c = "elf"

\* C17: when the scan has run, the list of roots that was extracted and
\* scanned holds no directory twice and no directory below another one, and
\* no file is recorded twice in the executable list or in the manifest.
C17_Claim ==
    pc \in {"persist", "done"} =>
        /\ \A i, j \in DOMAIN roots :
             i # j => ~(Len(roots[i]) <= Len(roots[j])
                        /\ SubSeq(roots[j], 1, Len(roots[i])) = roots[i])
        /\ \A i, j \in DOMAIN executables : executables[i] = executables[j] => i = j
        /\ \A i, j \in DOMAIN manifest.lines :
             manifest.lines[i] = manifest.lines[j] => i = j

\* C18: when the carving tool is invoked, the firmware image still exists,
\* and everything the cleanup removed was a direct child of the output
\* directory that was a symlink or was named *.rar or *.bin.
C18_Claim ==
    pc = "carve" =>
        /\ Firmware(fs0) \in DOMAIN fs
        /\ fs[Firmware(fs0)] = fs0[Firmware(fs0)]
        /\ \A p \in DOMAIN fs0 \ DOMAIN fs :
             /\ Len(p) = Len(Out) + 1
             /\ SubSeq(p, 1, Len(Out)) = Out
             /\ \/ fs0[p].k = "symlink"
                \/ p[Len(p)][Len(p[Len(p)])] \in {".rar", ".bin"}

====
